---- MODULE Spec2Model ----
(***************************************************************************)
(* A model of package genome (src/genome/genome.go): a Genome is an        *)
(* ordered sequence of genes folded by a linking function.  The Gene and   *)
(* the function registries are collaborators that live outside genome.go;  *)
(* they are modelled here by small concrete stand-ins (a three-symbol      *)
(* Karva gene whose head symbol decides what it computes).                 *)
(***************************************************************************)
EXTENDS Integers, Sequences, FiniteSets, TLC

\* ------------------------------------------------------------------ bounds
MaxGenes == 3          \* largest number of genes of a genome
MaxDupGenes == 2       \* the same, of a genome that is duplicated or scored
NumGenomes == 2        \* number of Genome objects (and of Evaluate calls)
MaxCap == 1            \* largest capacity of the result channel

\* ------------------------------------------------------- symbols and genes
Terminals == {"a", "b"}
Heads == {"-", "a"}                   \* the head symbols a gene can carry
Symbols == Heads \cup Terminals \cup {"IMP"}
LinkFuncs == {"-", "IMP"}             \* link-function names handed to New
Free == "free"                        \* an unallocated gene cell
Refs == 1 .. NumGenomes               \* Genome objects (pointers)
NilRef == 0                           \* the nil *Genome
SrcRef == 1                           \* g, the genome New returned
DstRef == 2                           \* dst, the genome g.Dup() returns
NumMutations == {-1, 0, 1, 2}         \* the numMutations handed to Mutate
DupMutations == {-1, 0, 1}            \* the same, once a duplicate may exist
Addrs == 1 .. (NumGenomes * MaxGenes) \* Gene objects (pointers)
Scores == {0, 750}
NilMap == << >>                       \* a nil map[string]int
NilFunc == "nil"                      \* a nil ScoringFunc
ScoringFuncs == {"sevenFifty", "geneCount"}
NotParked == -1                       \* the call's send has not blocked
Unalloc == [Unalloc |-> TRUE]         \* a Genome object not yet allocated

BoolInputs == [Terminals -> BOOLEAN]
MathInputs == [Terminals -> {1, 2}]
\* functions.FuncMap values handed to EvalBool, as the set of names they hold
FuncMaps == {{"-", "IMP"}, {"-"}}
\* mn.Math, the numeric registry, as the set of names it holds
Math == {"-"}

\* functions.FuncMap[name].BoolFunction(x, y, c, d)
BoolFunction(name, x, y, c, d) ==
    CASE name = "IMP" -> (x => y)
      [] name = "-" -> (x /\ ~y)
      [] OTHER -> FALSE

\* mn.Math[name].Float64Function(x, y, c, d)
Float64Function(name, x, y, c, d) ==
    CASE name = "-" -> x - y
      [] OTHER -> 0

\* gene.Gene.EvalBool: the gene h.a.b on the inputs
GeneEvalBool(h, in, fm) ==
    IF h \in Terminals THEN in[h]
    ELSE IF h \in fm THEN BoolFunction(h, in["a"], in["b"], FALSE, FALSE)
    ELSE FALSE

\* gene.Gene.EvalMath
GeneEvalMath(h, in) ==
    IF h \in Terminals THEN in[h]
    ELSE IF h \in Math THEN Float64Function(h, in["a"], in["b"], 0, 0)
    ELSE 0

\* gene.Gene.SymbolMap after gene.Gene.SymbolCount forced its evaluation:
\* the symbols the gene's expression actually uses
GeneSymbolMap(h) ==
    IF h \in Terminals THEN (h :> 1)
    ELSE (h :> 1) @@ ("a" :> 1) @@ ("b" :> 1)

\* gene.Gene.String: the Karva rendering
GeneString(h) == h \o ".a.b"

\* gene.Gene.Mutate: a random symbol exchange; the contents it can leave
GeneMutate(h) == Heads

\* gene.Gene.Dup: the content of the copy
GeneDup(h) == h

\* ------------------------------------------------------------------- state
VARIABLES
    gene,   \* the Gene objects: Addrs -> head symbol, or Free
    gen,    \* the Genome objects: Refs -> Genome record, or Unalloc
    last,   \* what the last operation was given, returned and called
    pc,     \* Refs -> where the Evaluate call on that genome stands
    sfArg,  \* Refs -> the ScoringFunc handed to that call
    sfRet,  \* Refs -> what the ScoringFunc returned to that call
    cap,    \* the capacity the result channel was made with
    chan,   \* the result channel's buffer
    issued, \* the genomes in the order their Evaluate calls were issued
    recvd,  \* what the reader received: <<genome, its Score then>>
    sent,   \* Refs -> number of values that call has sent
    fatal,  \* log.Fatalf has ended the process
    parked  \* Refs -> number of values received when that call's send blocked

seqVars == <<gene, gen, last>>
evalVars == <<pc, sfArg, sfRet, cap, chan, issued, recvd, sent, fatal, parked>>
vars == <<gene, gen, last, pc, sfArg, sfRet, cap, chan, issued, recvd, sent, fatal, parked>>

Allocated(r) == r \in Refs /\ gen[r] # Unalloc

\* what one call leaves for the caller to see: what it was given (op, ref,
\* arg), what it returned (ret), the gene calls it made in order (calls), the
\* number of link-function applications (links), whether it logged (log), and
\* whether the call before it was the same call (again)
Obs(op, ref, arg, ret, calls, links, log) ==
    [op |-> op, ref |-> ref, arg |-> arg, ret |-> ret,
     calls |-> calls, links |-> links, log |-> log,
     again |-> (last.op = op /\ last.ref = ref /\ last.arg = arg)]

\* nothing called yet
NoObs ==
    [op |-> "New", ref |-> SrcRef, arg |-> 0, ret |-> SrcRef,
     calls |-> << >>, links |-> 0, log |-> FALSE, again |-> FALSE]

\* src/genome/genome.go: New
New(genes, linkFunc) ==
    [Genes |-> genes, LinkFunc |-> linkFunc, Score |-> 0, SymbolMap |-> NilMap]

\* a Go map read: the zero value for a missing key
MapGet(m, k) == IF k \in DOMAIN m THEN m[k] ELSE 0

SeqRange(s) == {s[i] : i \in DOMAIN s}

\* the state of the Evaluate calls before any is issued
EvalIdle ==
    /\ pc = [r \in Refs |-> "idle"]
    /\ sfArg = [r \in Refs |-> NilFunc]
    /\ sfRet = [r \in Refs |-> << >>]
    /\ chan = << >>
    /\ issued = << >>
    /\ recvd = << >>
    /\ sent = [r \in Refs |-> << >>]
    /\ fatal = FALSE
    /\ parked = [r \in Refs |-> NotParked]

\* one genome g = New(genes, linkFunc) with 1 <= len(genes) <= maxN
InitGenome(maxN) ==
    /\ \E n \in 1 .. maxN, lf \in LinkFuncs :
         /\ gene \in [Addrs -> Heads \cup {Free}]
         /\ \A a \in Addrs : (gene[a] = Free) <=> (a > n)
         /\ gen = [r \in Refs |->
                     IF r = SrcRef THEN New([i \in 1 .. n |-> i], lf) ELSE Unalloc]
    /\ last = NoObs
    /\ cap = 0
    /\ EvalIdle

Init == InitGenome(MaxGenes)

InitDup == InitGenome(MaxDupGenes)

\* --------------------------------------------------------- symbol accounting
\* merge with (*dst)[k] = v in place of (*dst)[k] += v
merge_Overwrite(dst, src) ==
    [k \in DOMAIN dst \cup DOMAIN src |->
       IF k \in DOMAIN src THEN src[k] ELSE dst[k]]

\* src/genome/genome.go: merge
merge(dst, src) ==
    [k \in DOMAIN dst \cup DOMAIN src |-> MapGet(dst, k) + MapGet(src, k)]

\* the loop of SymbolCount over the genes, from gene i on
RECURSIVE SymbolCountLoop(_, _, _)
SymbolCountLoop(genes, i, m) ==
    IF i > Len(genes) THEN m
    ELSE SymbolCountLoop(genes, i + 1, merge(m, GeneSymbolMap(gene[genes[i]])))

\* SymbolCount without the g.SymbolMap == nil test: recomputed on every call
SymbolCountFill_Recompute(g) ==
    SymbolCountLoop(g.Genes, 1, (g.LinkFunc :> (Len(g.Genes) - 1)))

\* g.SymbolMap as SymbolCount leaves it
SymbolCountFill(g) ==
    IF g.SymbolMap = NilMap
    THEN SymbolCountLoop(g.Genes, 1, (g.LinkFunc :> (Len(g.Genes) - 1)))
    ELSE g.SymbolMap

\* src/genome/genome.go: (*Genome).SymbolCount
SymbolCount(r, sym) ==
    /\ Allocated(r)
    /\ LET m == SymbolCountFill(gen[r])
       IN /\ gen' = [gen EXCEPT ![r].SymbolMap = m]
          /\ last' = Obs("SymbolCount", r, sym, MapGet(m, sym),
                         IF gen[r].SymbolMap = NilMap THEN gen[r].Genes ELSE << >>,
                         0, FALSE)
    /\ UNCHANGED <<gene, evalVars>>

\* ---------------------------------------------------------------- evaluation
\* the fold with the operands of the link function exchanged
RECURSIVE EvalBoolLoop_Swapped(_, _, _, _, _)
EvalBoolLoop_Swapped(g, in, fm, i, acc) ==
    IF i > Len(g.Genes) THEN acc
    ELSE EvalBoolLoop_Swapped(g, in, fm, i + 1,
            [ret |-> BoolFunction(g.LinkFunc,
                                  GeneEvalBool(gene[g.Genes[i]], in, fm),
                                  acc.ret, FALSE, FALSE),
             calls |-> Append(acc.calls, g.Genes[i]),
             links |-> acc.links + 1,
             log |-> acc.log])

\* the fold of EvalBool over genes i .. N, acc the running result
RECURSIVE EvalBoolLoop(_, _, _, _, _)
EvalBoolLoop(g, in, fm, i, acc) ==
    IF i > Len(g.Genes) THEN acc
    ELSE EvalBoolLoop(g, in, fm, i + 1,
            [ret |-> BoolFunction(g.LinkFunc, acc.ret,
                                  GeneEvalBool(gene[g.Genes[i]], in, fm),
                                  FALSE, FALSE),
             calls |-> Append(acc.calls, g.Genes[i]),
             links |-> acc.links + 1,
             log |-> acc.log])

\* what EvalBool returns, evaluates and logs
EvalBoolCall(g, in, fm) ==
    IF g.LinkFunc \notin fm
    THEN [ret |-> FALSE, calls |-> << >>, links |-> 0, log |-> TRUE]
    ELSE EvalBoolLoop(g, in, fm, 2,
            [ret |-> GeneEvalBool(gene[g.Genes[1]], in, fm),
             calls |-> <<g.Genes[1]>>, links |-> 0, log |-> FALSE])

\* EvalBool that keeps its result in g.Score
EvalBool_KeepsResult(r, in, fm) ==
    /\ Allocated(r)
    /\ LET c == EvalBoolCall(gen[r], in, fm)
       IN /\ last' = Obs("EvalBool", r, <<in, fm>>, c.ret, c.calls, c.links, c.log)
          /\ gen' = [gen EXCEPT ![r].Score = IF c.ret THEN 1 ELSE 0]
    /\ UNCHANGED <<gene, evalVars>>

\* src/genome/genome.go: (*Genome).EvalBool
EvalBool(r, in, fm) ==
    /\ Allocated(r)
    /\ LET c == EvalBoolCall(gen[r], in, fm)
       IN last' = Obs("EvalBool", r, <<in, fm>>, c.ret, c.calls, c.links, c.log)
    /\ UNCHANGED <<gene, gen, evalVars>>

\* the fold of EvalMath over genes i .. N
RECURSIVE EvalMathLoop(_, _, _, _)
EvalMathLoop(g, in, i, acc) ==
    IF i > Len(g.Genes) THEN acc
    ELSE EvalMathLoop(g, in, i + 1,
            [ret |-> Float64Function(g.LinkFunc, acc.ret,
                                     GeneEvalMath(gene[g.Genes[i]], in), 0, 0),
             calls |-> Append(acc.calls, g.Genes[i]),
             links |-> acc.links + 1,
             log |-> acc.log])

\* EvalMath that logs the unresolved link function and folds all the same
EvalMathCall_NoReturn(g, in) ==
    EvalMathLoop(g, in, 2,
        [ret |-> GeneEvalMath(gene[g.Genes[1]], in),
         calls |-> <<g.Genes[1]>>, links |-> 0, log |-> g.LinkFunc \notin Math])

\* what EvalMath returns, evaluates and logs
EvalMathCall(g, in) ==
    IF g.LinkFunc \notin Math
    THEN [ret |-> 0, calls |-> << >>, links |-> 0, log |-> TRUE]
    ELSE EvalMathLoop(g, in, 2,
            [ret |-> GeneEvalMath(gene[g.Genes[1]], in),
             calls |-> <<g.Genes[1]>>, links |-> 0, log |-> FALSE])

\* src/genome/genome.go: (*Genome).EvalMath
EvalMath(r, in) ==
    /\ Allocated(r)
    /\ LET c == EvalMathCall(gen[r], in)
       IN last' = Obs("EvalMath", r, in, c.ret, c.calls, c.links, c.log)
    /\ UNCHANGED <<gene, gen, evalVars>>

\* ------------------------------------------------------------------ String
\* strings.Join(elems[i ..], sep) appended to what is joined so far
\* a join that writes the separator after every element, the last included
RECURSIVE Join_Trailing(_, _, _)
Join_Trailing(elems, sep, i) ==
    IF i > Len(elems) THEN ""
    ELSE elems[i] \o sep \o Join_Trailing(elems, sep, i + 1)

RECURSIVE Join(_, _, _)
Join(elems, sep, i) ==
    IF i > Len(elems) THEN ""
    ELSE IF i = Len(elems) THEN elems[i]
    ELSE elems[i] \o sep \o Join(elems, sep, i + 1)

\* src/genome/genome.go: (Genome).String, the text it returns when the Gene
\* objects hold heap
GenomeStringIn(g, heap) ==
    Join([i \in 1 .. Len(g.Genes) |-> GeneString(heap[g.Genes[i]])],
         "|" \o g.LinkFunc \o "|", 1)

GenomeString(g) == GenomeStringIn(g, gene)

\* src/genome/genome.go: (Genome).String
String(r) ==
    /\ Allocated(r)
    /\ last' = Obs("String", r, 0, GenomeString(gen[r]), gen[r].Genes, 0, FALSE)
    /\ UNCHANGED <<gene, gen, evalVars>>

\* ------------------------------------------------------------------ Mutate
\* the rounds of Mutate from round i on: picks[i] = <<rand.Intn result, the
\* content gene.Mutate leaves>>
RECURSIVE MutateLoop(_, _, _, _)
MutateLoop(genes, heap, picks, i) ==
    IF i > Len(picks) THEN heap
    ELSE MutateLoop(genes, [heap EXCEPT ![genes[picks[i][1] + 1]] = picks[i][2]],
                    picks, i + 1)

\* Mutate that also drops the memoized SymbolMap of the genome it mutates
Mutate_DropsSymbolMap(r, numMutations) ==
    /\ Allocated(r)
    /\ \E picks \in [1 .. numMutations ->
                       (0 .. (Len(gen[r].Genes) - 1)) \X Heads] :
         /\ gene' = MutateLoop(gen[r].Genes, gene, picks, 1)
         /\ last' = Obs("Mutate", r, numMutations, 0,
                        [i \in DOMAIN picks |-> gen[r].Genes[picks[i][1] + 1]],
                        0, FALSE)
    /\ gen' = [gen EXCEPT ![r].SymbolMap = NilMap]
    /\ UNCHANGED evalVars

\* Mutate with the loop test i <= numMutations: one round too many
Mutate_OneMore(r, numMutations) ==
    /\ Allocated(r)
    /\ \E picks \in [1 .. (numMutations + 1) ->
                       (0 .. (Len(gen[r].Genes) - 1)) \X Heads] :
         /\ gene' = MutateLoop(gen[r].Genes, gene, picks, 1)
         /\ last' = Obs("Mutate", r, numMutations, 0,
                        [i \in DOMAIN picks |-> gen[r].Genes[picks[i][1] + 1]],
                        0, FALSE)
    /\ UNCHANGED <<gen, evalVars>>

\* src/genome/genome.go: (*Genome).Mutate
Mutate(r, numMutations) ==
    /\ Allocated(r)
    /\ \E picks \in [1 .. numMutations ->
                       (0 .. (Len(gen[r].Genes) - 1)) \X Heads] :
         /\ \A i \in DOMAIN picks :
              picks[i][2] \in GeneMutate(gene[gen[r].Genes[picks[i][1] + 1]])
         /\ gene' = MutateLoop(gen[r].Genes, gene, picks, 1)
         /\ last' = Obs("Mutate", r, numMutations, 0,
                        [i \in DOMAIN picks |-> gen[r].Genes[picks[i][1] + 1]],
                        0, FALSE)
    /\ UNCHANGED <<gen, evalVars>>

\* a caller mutating one gene directly: g.Genes[i].Mutate()
GeneMutateCall(r, i) ==
    /\ Allocated(r)
    /\ i \in 1 .. Len(gen[r].Genes)
    /\ \E h \in GeneMutate(gene[gen[r].Genes[i]]) :
         gene' = [gene EXCEPT ![gen[r].Genes[i]] = h]
    /\ last' = Obs("Gene.Mutate", r, i, 0, <<gen[r].Genes[i]>>, 0, FALSE)
    /\ UNCHANGED <<gen, evalVars>>

\* a caller writing the exported fields Score and LinkFunc
SetScore(r, v) ==
    /\ Allocated(r)
    /\ gen' = [gen EXCEPT ![r].Score = v]
    /\ last' = Obs("SetScore", r, v, 0, << >>, 0, FALSE)
    /\ UNCHANGED <<gene, evalVars>>

SetLinkFunc(r, lf) ==
    /\ Allocated(r)
    /\ gen' = [gen EXCEPT ![r].LinkFunc = lf]
    /\ last' = Obs("SetLinkFunc", r, lf, 0, << >>, 0, FALSE)
    /\ UNCHANGED <<gene, evalVars>>

\* --------------------------------------------------------------------- Dup
FreeAddrs == {a \in Addrs : gene[a] = Free}

\* the k-th Gene object that the gene.Dup calls of one Dup allocate
NthFree(k) ==
    CHOOSE a \in FreeAddrs : Cardinality({b \in FreeAddrs : b < a}) = k - 1

\* dst.Genes filled with g.Genes[i] itself: a copy of the slice of pointers
DupGenes_Shared(g) == g.Genes

\* dst.Genes: make([]*gene.Gene, len(g.Genes)) filled with g.Genes[i].Dup()
DupGenes(g) == [i \in 1 .. Len(g.Genes) |-> NthFree(i)]

\* a duplicate that takes over the source's SymbolMap
DupGenome_CopiesMap(g) ==
    [Genes |-> DupGenes(g), LinkFunc |-> g.LinkFunc, Score |-> g.Score,
     SymbolMap |-> g.SymbolMap]

\* Dup without Score: g.Score in the composite literal
DupGenome_NoScore(g) ==
    [Genes |-> DupGenes(g), LinkFunc |-> g.LinkFunc, Score |-> 0,
     SymbolMap |-> NilMap]

\* dst, the Genome object Dup builds from g
DupGenome(g) ==
    [Genes |-> DupGenes(g), LinkFunc |-> g.LinkFunc, Score |-> g.Score,
     SymbolMap |-> NilMap]

\* the Gene objects once the genes of g are duplicated into dst.Genes
DupHeap(g, dst) ==
    [a \in Addrs |->
       IF \E i \in DOMAIN dst.Genes : dst.Genes[i] = a
       THEN GeneDup(gene[g.Genes[CHOOSE i \in DOMAIN dst.Genes : dst.Genes[i] = a]])
       ELSE gene[a]]

\* Dup with log.Fatalf in place of log.Printf: the call on nil ends the process
Dup_NilFatal(r) ==
    IF r = NilRef
    THEN /\ last' = Obs("Dup", NilRef, 0, NilRef, << >>, 0, TRUE)
         /\ fatal' = TRUE
         /\ UNCHANGED <<gene, gen, pc, sfArg, sfRet, cap, chan, issued, recvd,
                        sent, parked>>
    ELSE /\ Allocated(r)
         /\ gen[DstRef] = Unalloc
         /\ LET dst == DupGenome(gen[r])
            IN /\ gen' = [gen EXCEPT ![DstRef] = dst]
               /\ gene' = DupHeap(gen[r], dst)
               /\ last' = Obs("Dup", r, 0, DstRef, gen[r].Genes, 0, FALSE)
         /\ UNCHANGED evalVars

\* src/genome/genome.go: (*Genome).Dup; r = NilRef is the call on a nil genome
Dup(r) ==
    /\ IF r = NilRef
       THEN /\ last' = Obs("Dup", NilRef, 0, NilRef, << >>, 0, TRUE)
            /\ UNCHANGED <<gene, gen>>
       ELSE /\ Allocated(r)
            /\ gen[DstRef] = Unalloc
            /\ LET dst == DupGenome(gen[r])
               IN /\ gen' = [gen EXCEPT ![DstRef] = dst]
                  /\ gene' = DupHeap(gen[r], dst)
                  /\ last' = Obs("Dup", r, 0, DstRef, gen[r].Genes, 0, FALSE)
    /\ UNCHANGED evalVars

\* ------------------------------------------------------------ specification
\* the operations on one genome
Next ==
    \/ \E sym \in Symbols : SymbolCount(SrcRef, sym)
    \/ \E in \in BoolInputs, fm \in FuncMaps : EvalBool(SrcRef, in, fm)
    \/ \E in \in MathInputs : EvalMath(SrcRef, in)
    \/ String(SrcRef)
    \/ \E k \in NumMutations : Mutate(SrcRef, k)
    \/ \E i \in 1 .. MaxGenes : GeneMutateCall(SrcRef, i)

Spec == Init /\ [][Next]_vars

\* the operations on a genome and its duplicate
NextDup ==
    \/ \E r \in {SrcRef, NilRef} : Dup(r)
    \/ \E r \in Refs : String(r)
    \/ \E r \in Refs, k \in DupMutations : Mutate(r, k)
    \/ \E r \in Refs, v \in Scores : SetScore(r, v)
    \/ \E r \in Refs, lf \in LinkFuncs : SetLinkFunc(r, lf)

SpecDup == InitDup /\ [][NextDup]_vars

\* the operations on a genome and its duplicate, SymbolCount among them
NextCache ==
    \/ Dup(SrcRef)
    \/ \E r \in Refs, sym \in LinkFuncs : SymbolCount(r, sym)
    \/ \E r \in Refs, i \in 1 .. MaxDupGenes : GeneMutateCall(r, i)
    \/ \E r \in Refs, lf \in LinkFuncs : SetLinkFunc(r, lf)

SpecCache == InitDup /\ [][NextCache]_vars

\* ---------------------------------------------------------------- Evaluate
\* a ScoringFunc applied to a genome
ApplyScoringFunc(sf, g) ==
    CASE sf = "sevenFifty" -> 750
      [] sf = "geneCount" -> Len(g.Genes)

\* a population of NumGenomes genomes, each from New, none scored yet, and a
\* result channel made with capacity 0 .. MaxCap
InitEvaluate ==
    /\ \E n \in [Refs -> 1 .. MaxDupGenes] :
         /\ gene = [a \in Addrs |->
                      IF \E r \in Refs : a \in ((r - 1) * MaxGenes + 1) ..
                                               ((r - 1) * MaxGenes + n[r])
                      THEN "a" ELSE Free]
         /\ gen = [r \in Refs |->
                     New([i \in 1 .. n[r] |-> (r - 1) * MaxGenes + i], "-")]
    /\ last = NoObs
    /\ cap \in 0 .. MaxCap
    /\ EvalIdle

\* go g.Evaluate(sf, c): the caller starts the call on genome r
Go(r, sf) ==
    /\ ~fatal
    /\ pc[r] = "idle"
    /\ pc' = [pc EXCEPT ![r] = "called"]
    /\ sfArg' = [sfArg EXCEPT ![r] = sf]
    /\ issued' = Append(issued, r)
    /\ UNCHANGED <<seqVars, sfRet, cap, chan, recvd, sent, fatal, parked>>

\* Evaluate that sends before it scores: g.Score is not yet written at the send
EvaluateScore_Late(r) ==
    /\ ~fatal
    /\ pc[r] = "called"
    /\ IF sfArg[r] = NilFunc
       THEN /\ fatal' = TRUE
            /\ pc' = [pc EXCEPT ![r] = "fatal"]
            /\ UNCHANGED <<gen, sfRet>>
       ELSE /\ sfRet' = [sfRet EXCEPT
                           ![r] = Append(@, ApplyScoringFunc(sfArg[r], gen[r]))]
            /\ pc' = [pc EXCEPT ![r] = "send"]
            /\ UNCHANGED <<gen, fatal>>
    /\ UNCHANGED <<gene, last, sfArg, cap, chan, issued, recvd, sent, parked>>

\* Evaluate with log.Printf in place of log.Fatalf: the call goes on unscored
EvaluateScore_NotFatal(r) ==
    /\ ~fatal
    /\ pc[r] = "called"
    /\ IF sfArg[r] = NilFunc
       THEN /\ pc' = [pc EXCEPT ![r] = "send"]
            /\ UNCHANGED <<gen, sfRet, fatal>>
       ELSE /\ sfRet' = [sfRet EXCEPT
                           ![r] = Append(@, ApplyScoringFunc(sfArg[r], gen[r]))]
            /\ gen' = [gen EXCEPT
                         ![r].Score = ApplyScoringFunc(sfArg[r], gen[r])]
            /\ pc' = [pc EXCEPT ![r] = "send"]
            /\ UNCHANGED fatal
    /\ UNCHANGED <<gene, last, sfArg, cap, chan, issued, recvd, sent, parked>>

\* src/genome/genome.go: (*Genome).Evaluate up to the send: the nil check
\* and g.Score = sf(g)
EvaluateScore(r) ==
    /\ ~fatal
    /\ pc[r] = "called"
    /\ IF sfArg[r] = NilFunc
       THEN /\ fatal' = TRUE
            /\ pc' = [pc EXCEPT ![r] = "fatal"]
            /\ UNCHANGED <<gen, sfRet>>
       ELSE /\ sfRet' = [sfRet EXCEPT
                           ![r] = Append(@, ApplyScoringFunc(sfArg[r], gen[r]))]
            /\ gen' = [gen EXCEPT
                         ![r].Score = ApplyScoringFunc(sfArg[r], gen[r])]
            /\ pc' = [pc EXCEPT ![r] = "send"]
            /\ UNCHANGED fatal
    /\ UNCHANGED <<gene, last, sfArg, cap, chan, issued, recvd, sent, parked>>

\* c <- g as a non-blocking send: the value is dropped when nobody takes it
EvaluateSend_Drop(r) ==
    /\ ~fatal
    /\ pc[r] = "send"
    /\ IF Len(chan) < cap
       THEN /\ chan' = Append(chan, r)
            /\ sent' = [sent EXCEPT ![r] = Append(@, r)]
       ELSE UNCHANGED <<chan, sent>>
    /\ pc' = [pc EXCEPT ![r] = "done"]
    /\ UNCHANGED <<seqVars, sfArg, sfRet, cap, issued, recvd, fatal, parked>>

\* the value c <- g sends
SendValue(r) == r

\* c <- g that never waits: the value is buffered whether or not a slot is free
EvaluateSend_NoWait(r) ==
    /\ ~fatal
    /\ pc[r] = "send"
    /\ cap > 0
    /\ chan' = Append(chan, SendValue(r))
    /\ sent' = [sent EXCEPT ![r] = Append(@, SendValue(r))]
    /\ pc' = [pc EXCEPT ![r] = "done"]
    /\ UNCHANGED <<seqVars, sfArg, sfRet, cap, issued, recvd, fatal, parked>>

\* src/genome/genome.go: (*Genome).Evaluate, c <- g finding no free slot and
\* no reader waiting: the goroutine blocks in the send
EvaluatePark(r) ==
    /\ ~fatal
    /\ pc[r] = "send"
    /\ Len(chan) = cap
    /\ parked[r] = NotParked
    /\ parked' = [parked EXCEPT ![r] = Len(recvd)]
    /\ UNCHANGED <<seqVars, pc, sfArg, sfRet, cap, chan, issued, recvd, sent, fatal>>

\* src/genome/genome.go: (*Genome).Evaluate, c <- g into a free buffer slot
EvaluateSend(r) ==
    /\ ~fatal
    /\ pc[r] = "send"
    /\ Len(chan) < cap
    /\ chan' = Append(chan, SendValue(r))
    /\ sent' = [sent EXCEPT ![r] = Append(@, SendValue(r))]
    /\ pc' = [pc EXCEPT ![r] = "done"]
    /\ UNCHANGED <<seqVars, sfArg, sfRet, cap, issued, recvd, fatal, parked>>

\* src/genome/genome.go: (*Genome).Evaluate, c <- g handed to the reader
\* that waits on an unbuffered channel
EvaluateHandoff(r) ==
    /\ ~fatal
    /\ pc[r] = "send"
    /\ cap = 0
    /\ recvd' = Append(recvd, <<SendValue(r), gen[SendValue(r)].Score>>)
    /\ sent' = [sent EXCEPT ![r] = Append(@, SendValue(r))]
    /\ pc' = [pc EXCEPT ![r] = "done"]
    /\ UNCHANGED <<seqVars, sfArg, sfRet, cap, chan, issued, fatal, parked>>

\* the reader's <-c on a buffered value; it notes the Score it sees
Receive ==
    /\ ~fatal
    /\ chan # << >>
    /\ recvd' = Append(recvd, <<Head(chan), gen[Head(chan)].Score>>)
    /\ chan' = Tail(chan)
    /\ UNCHANGED <<seqVars, pc, sfArg, sfRet, cap, issued, sent, fatal, parked>>

\* Evaluate calls with any ScoringFunc, nil included
NextEvaluate ==
    \/ \E r \in Refs, sf \in ScoringFuncs \cup {NilFunc} : Go(r, sf)
    \/ \E r \in Refs : EvaluateScore(r)
    \/ \E r \in Refs : EvaluateSend(r)
    \/ \E r \in Refs : EvaluateHandoff(r)
    \/ Receive

SpecEvaluate == InitEvaluate /\ [][NextEvaluate]_vars

\* the same calls, with the blocking of a send that finds the channel full
\* and no reader waiting noted when it happens
NextBlocking ==
    \/ NextEvaluate
    \/ \E r \in Refs : EvaluatePark(r)

SpecBlocking == InitEvaluate /\ [][NextBlocking]_vars

\* Evaluate calls that are all given a ScoringFunc, under a scheduler that
\* runs every goroutine and a reader that keeps receiving
NextScored ==
    \/ \E r \in Refs, sf \in ScoringFuncs : Go(r, sf)
    \/ \E r \in Refs : EvaluateScore(r)
    \/ \E r \in Refs : EvaluateSend(r)
    \/ \E r \in Refs : EvaluateHandoff(r)
    \/ Receive

SpecScored == InitEvaluate /\ [][NextScored]_vars /\ WF_vars(NextScored)

\* ==================================================================== claims
RECURSIVE SumOver(_, _)
SumOver(S, f) ==
    IF S = {} THEN 0
    ELSE LET x == CHOOSE y \in S : TRUE IN f[x] + SumOver(S \ {x}, f)

\* (N-1 if s is the link function, else 0) plus the genes' own counts of s
ExpectedCount(g, s) ==
    (IF s = g.LinkFunc THEN Len(g.Genes) - 1 ELSE 0)
    + SumOver(DOMAIN g.Genes,
              [i \in DOMAIN g.Genes |-> MapGet(GeneSymbolMap(gene[g.Genes[i]]), s)])

IsEval(o) == o.op \in {"EvalBool", "EvalMath"}

\* C1: the first SymbolCount(s) on a genome whose SymbolMap is nil returns
\* (N-1 if s == LinkFunc, else 0) plus the sum over the genes of each gene's
\* own count of s: counts of a shared symbol are added, not overwritten.
C1_FirstSymbolCountIsSum ==
    [][\A r \in Refs :
         (Allocated(r) /\ gen[r].SymbolMap = NilMap
          /\ last'.op = "SymbolCount" /\ last'.ref = r)
         => /\ last'.ret = ExpectedCount(gen[r], last'.arg)
            /\ \A s \in Symbols : MapGet(gen'[r].SymbolMap, s) = ExpectedCount(gen[r], s)
            /\ last'.calls = gen[r].Genes]_vars

\* a first SymbolCount of the link function on a genome two of whose genes
\* use the link function themselves
C1_Witness ==
    /\ last.op = "SymbolCount"
    /\ last.calls # << >>
    /\ last.arg = gen[last.ref].LinkFunc
    /\ Len(gen[last.ref].Genes) >= 2
    /\ last.ret >= Len(gen[last.ref].Genes) - 1 + 2

\* C2: once SymbolMap is populated no operation recomputes or modifies it,
\* and every later SymbolCount(s) returns the value cached then, whatever
\* happened to the genes since.
C2_SymbolMapIsOneShot ==
    [][\A r \in Refs :
         (Allocated(r) /\ gen[r].SymbolMap # NilMap)
         => /\ gen'[r].SymbolMap = gen[r].SymbolMap
            /\ (last'.op = "SymbolCount" /\ last'.ref = r)
               => /\ last'.ret = MapGet(gen[r].SymbolMap, last'.arg)
                  /\ last'.calls = << >>]_vars

\* a SymbolCount answered from the cache although the genes have changed
\* since and would now count differently
C2_Witness ==
    /\ last.op = "SymbolCount"
    /\ last.calls = << >>
    /\ last.ret # ExpectedCount(gen[last.ref], last.arg)

\* the left fold of the values vals by the link function lf
RECURSIVE LeftFoldBool(_, _)
LeftFoldBool(lf, vals) ==
    IF Len(vals) = 1 THEN vals[1]
    ELSE BoolFunction(lf, LeftFoldBool(lf, SubSeq(vals, 1, Len(vals) - 1)),
                      vals[Len(vals)], FALSE, FALSE)

RECURSIVE LeftFoldMath(_, _)
LeftFoldMath(lf, vals) ==
    IF Len(vals) = 1 THEN vals[1]
    ELSE Float64Function(lf, LeftFoldMath(lf, SubSeq(vals, 1, Len(vals) - 1)),
                         vals[Len(vals)], 0, 0)

RECURSIVE RightFoldBool(_, _)
RightFoldBool(lf, vals) ==
    IF Len(vals) = 1 THEN vals[1]
    ELSE BoolFunction(lf, vals[1], RightFoldBool(lf, Tail(vals)), FALSE, FALSE)

BoolValues(g, in, fm) ==
    [i \in 1 .. Len(g.Genes) |-> GeneEvalBool(gene[g.Genes[i]], in, fm)]

MathValues(g, in) ==
    [i \in 1 .. Len(g.Genes) |-> GeneEvalMath(gene[g.Genes[i]], in)]

\* C3: when the link function resolves, EvalBool and EvalMath return the
\* left fold of the genes' results in gene order, evaluate every gene once
\* in index order and apply the link function N-1 times (never for N = 1).
C3_EvalIsLeftFold ==
    /\ (last.op = "EvalBool" /\ gen[last.ref].LinkFunc \in last.arg[2])
       => /\ last.ret = LeftFoldBool(gen[last.ref].LinkFunc,
                                     BoolValues(gen[last.ref], last.arg[1], last.arg[2]))
          /\ last.calls = gen[last.ref].Genes
          /\ last.links = Len(gen[last.ref].Genes) - 1
          /\ ~last.log
    /\ (last.op = "EvalMath" /\ gen[last.ref].LinkFunc \in Math)
       => /\ last.ret = LeftFoldMath(gen[last.ref].LinkFunc,
                                     MathValues(gen[last.ref], last.arg))
          /\ last.calls = gen[last.ref].Genes
          /\ last.links = Len(gen[last.ref].Genes) - 1
          /\ ~last.log

\* an EvalBool of three genes whose left fold differs from their right fold
C3_Witness ==
    /\ last.op = "EvalBool"
    /\ gen[last.ref].LinkFunc \in last.arg[2]
    /\ Len(gen[last.ref].Genes) = 3
    /\ last.ret # RightFoldBool(gen[last.ref].LinkFunc,
                                BoolValues(gen[last.ref], last.arg[1], last.arg[2]))

\* C4: with the link function absent from the registry EvalBool returns
\* false and EvalMath 0.0, a diagnostic is logged, no gene is evaluated, the
\* process goes on and the genome and its genes are as before.
C4_UnresolvedLinkFunc ==
    [][\A r \in Refs :
         (Allocated(r) /\ last'.ref = r
          /\ \/ last'.op = "EvalBool" /\ gen[r].LinkFunc \notin last'.arg[2]
             \/ last'.op = "EvalMath" /\ gen[r].LinkFunc \notin Math)
         => /\ last'.ret = (IF last'.op = "EvalBool" THEN FALSE ELSE 0)
            /\ last'.log
            /\ last'.calls = << >>
            /\ last'.links = 0
            /\ ~fatal'
            /\ gen' = gen
            /\ gene' = gene]_vars

\* an EvalMath whose link function the numeric registry does not hold, on a
\* genome whose first gene would have evaluated to something else than 0.0
C4_Witness ==
    /\ last.op = "EvalMath"
    /\ gen[last.ref].LinkFunc \notin Math
    /\ last.ret = 0
    /\ GeneEvalMath(gene[gen[last.ref].Genes[1]], last.arg) # 0

\* C5: EvalBool and EvalMath leave every Genome object (Genes, LinkFunc,
\* Score, SymbolMap) as it was, and a call that repeats the call before it
\* returns what that call returned.
C5_EvalIsPure ==
    [][IsEval(last')
       => /\ gen' = gen
          /\ (last'.again /\ IsEval(last)) => last'.ret = last.ret]_vars

\* a second EvalBool in a row with the same inputs and registry, on a genome
\* whose SymbolMap is populated
C5_Witness ==
    /\ last.op = "EvalBool"
    /\ last.again
    /\ ~last.log
    /\ gen[last.ref].SymbolMap # NilMap

\* the genes of genome object o hold, after the step, what they held before
GenesKept(o) ==
    \A i \in DOMAIN gen[o].Genes : gene'[gen[o].Genes[i]] = gene[gen[o].Genes[i]]

\* C6: d = g.Dup() on a non-nil g is a new Genome object with g's LinkFunc
\* and Score, as many genes, gene i of d a copy of gene i of g, and the same
\* String() as g; g and its genes are as before.
C6_DupCopies ==
    [][(last'.op = "Dup" /\ last'.ref # NilRef)
       => LET r == last'.ref
              d == last'.ret
          IN /\ d # r
             /\ gen[d] = Unalloc
             /\ gen'[d] # Unalloc
             /\ gen'[d].LinkFunc = gen[r].LinkFunc
             /\ gen'[d].Score = gen[r].Score
             /\ Len(gen'[d].Genes) = Len(gen[r].Genes)
             /\ \A i \in DOMAIN gen[r].Genes :
                  gene'[gen'[d].Genes[i]] = GeneDup(gene[gen[r].Genes[i]])
             /\ GenomeStringIn(gen'[d], gene') = GenomeStringIn(gen[r], gene)
             /\ gen'[r] = gen[r]
             /\ GenesKept(r)]_vars

\* the duplicate of a scored genome with two different genes
C6_Witness ==
    /\ last.op = "Dup"
    /\ last.ret = DstRef
    /\ gen[SrcRef].Score = 750
    /\ Len(gen[SrcRef].Genes) = 2
    /\ gene[gen[SrcRef].Genes[1]] # gene[gen[SrcRef].Genes[2]]

\* C7: a genome and its duplicate share no gene, and a Mutate or a write to
\* LinkFunc or Score on one of them leaves the other's Genes, LinkFunc,
\* Score, gene contents and String() as they were.
C7_DupIsIndependent ==
    /\ [](\A r, o \in Refs :
            (r # o /\ Allocated(r) /\ Allocated(o))
            => SeqRange(gen[r].Genes) \cap SeqRange(gen[o].Genes) = {})
    /\ [][last'.op \in {"Mutate", "SetScore", "SetLinkFunc"}
          => \A o \in Refs \ {last'.ref} :
               Allocated(o)
               => /\ gen'[o] = gen[o]
                  /\ GenesKept(o)
                  /\ GenomeStringIn(gen'[o], gene') = GenomeStringIn(gen[o], gene)]_vars

\* a Mutate of the duplicate that made its String() differ from the source's
C7_Witness ==
    /\ Allocated(DstRef)
    /\ last.op = "Mutate"
    /\ last.ref = DstRef
    /\ last.calls # << >>
    /\ GenomeString(gen[DstRef]) # GenomeString(gen[SrcRef])

Count(seq, x) == Cardinality({i \in DOMAIN seq : seq[i] = x})

\* C8: Evaluate with a ScoringFunc writes Score = sf(g) before it sends,
\* sends one value per call, the genome itself: a genome in the channel or
\* received from it carries the score its ScoringFunc returned.
C8_ScoredBeforeSent ==
    /\ \A i \in DOMAIN recvd :
         /\ Len(sfRet[recvd[i][1]]) = 1
         /\ recvd[i][2] = sfRet[recvd[i][1]][1]
    /\ \A i \in DOMAIN chan :
         /\ Len(sfRet[chan[i]]) = 1
         /\ gen[chan[i]].Score = sfRet[chan[i]][1]
    /\ \A r \in Refs :
         /\ pc[r] \in {"send", "done"}
            => /\ sfRet[r] = <<ApplyScoringFunc(sfArg[r], gen[r])>>
               /\ gen[r].Score = sfRet[r][1]
         /\ sent[r] = IF pc[r] = "done" THEN <<r>> ELSE << >>
         /\ Count(chan, r) + Count([i \in DOMAIN recvd |-> recvd[i][1]], r)
              = Len(sent[r])

\* the reader has received a genome whose ScoringFunc returned 750
C8_Witness ==
    \E i \in DOMAIN recvd :
        /\ recvd[i][2] = 750
        /\ sfArg[recvd[i][1]] = "sevenFifty"
        /\ pc[recvd[i][1]] = "done"

\* C9: Evaluate with a nil ScoringFunc ends the process: the step that finds
\* it calls no ScoringFunc, writes no Score and sends nothing, and nothing
\* happens after it.
C9_NilScoringFuncIsFatal ==
    [][/\ ~fatal
       /\ \A r \in Refs :
            (pc[r] = "called" /\ sfArg[r] = NilFunc /\ pc'[r] # pc[r])
            => /\ fatal'
               /\ gen' = gen
               /\ sfRet' = sfRet
               /\ chan' = chan
               /\ recvd' = recvd
               /\ sent' = sent
       /\ fatal' => \E r \in Refs : pc[r] = "called" /\ sfArg[r] = NilFunc]_vars

\* the process has ended in Evaluate(nil, c), the genome unscored and unsent
C9_Witness ==
    /\ fatal
    /\ \E r \in Refs :
         /\ pc[r] = "fatal"
         /\ sfRet[r] = << >>
         /\ gen[r].Score = 0
         /\ sent[r] = << >>

Received == [i \in DOMAIN recvd |-> recvd[i][1]]

\* C10: with every call given a ScoringFunc and a reader that keeps
\* receiving, in every interleaving no genome is received twice, each
\* received genome carries the score of its own scoring call, and in the end
\* every call has returned and every genome has been received once.
C10_AllScoredAndReceived ==
    /\ [](\A r \in Refs :
            /\ Count(Received, r) <= 1
            /\ \A i \in DOMAIN recvd :
                 recvd[i][1] = r
                 => /\ recvd[i][2] = ApplyScoringFunc(sfArg[r], gen[r])
                    /\ sfRet[r] = <<recvd[i][2]>>)
    /\ <>[](\A r \in Refs : pc[r] = "done" /\ Count(Received, r) = 1)

\* all genomes received, in another order than their calls were issued, with
\* different scores
C10_Witness ==
    /\ \A r \in Refs : Count(Received, r) = 1
    /\ Received # issued
    /\ \E i, j \in DOMAIN recvd : recvd[i][2] # recvd[j][2]

\* the original wording of C11: a call that blocked in its send has returned
\* only if a reader has received its own genome
C11_OwnGenomeReceived ==
    \A r \in Refs :
        (parked[r] # NotParked /\ pc[r] = "done")
        => \E i \in DOMAIN Received : Received[i] = r

\* C11: the send is where Evaluate blocks. A call that found no free slot and
\* no waiting reader has its score written already, and has returned only
\* after the reader received a value: its own genome on an unbuffered sink,
\* a value whose receipt freed a slot on a buffered one. While nothing is
\* received a call facing a full sink stays in its send. With a free slot,
\* or a reader ready on an unbuffered sink, the send can complete at once.
C11_FullSinkBlocks ==
    /\ [](\A r \in Refs :
            /\ parked[r] # NotParked
               => /\ pc[r] \in {"send", "done"}
                  /\ sfRet[r] # << >>
                  /\ gen[r].Score = sfRet[r][1]
            /\ (parked[r] # NotParked /\ pc[r] = "done")
               => /\ Len(recvd) > parked[r]
                  /\ cap = 0 => \E i \in DOMAIN Received : Received[i] = r
            /\ (~fatal /\ pc[r] = "send" /\ Len(chan) < cap)
               => ENABLED EvaluateSend(r)
            /\ (~fatal /\ pc[r] = "send" /\ cap = 0)
               => ENABLED EvaluateHandoff(r))
    /\ [][\A r \in Refs :
            (pc[r] = "send" /\ Len(chan) = cap /\ recvd' = recvd)
            => pc'[r] = "send"]_vars

\* a call blocked on a full buffer, the reader took the older value, and the
\* call has returned with its own genome still in the buffer
C11_Witness ==
    \E r \in Refs :
        /\ parked[r] # NotParked
        /\ pc[r] = "done"
        /\ Len(recvd) = parked[r] + 1
        /\ chan = <<r>>
        /\ gen[r].Score = sfRet[r][1]

\* C12: Mutate(k) on a genome of N >= 1 genes calls gene.Mutate exactly
\* max(k, 0) times, each time on the gene at an index in [0, N) (an index may
\* come up more than once), and leaves the number of genes as it was;
\* Mutate(0) and Mutate(k) with k < 0 call no gene.Mutate and change nothing.
C12_MutateCallCount ==
    [][last'.op = "Mutate"
       => LET r == last'.ref
              k == last'.arg
              N == Len(gen[r].Genes)
          IN /\ N >= 1
             /\ Len(last'.calls) = (IF k > 0 THEN k ELSE 0)
             /\ \A c \in DOMAIN last'.calls :
                  \E n \in 0 .. (N - 1) : last'.calls[c] = gen[r].Genes[n + 1]
             /\ Len(gen'[r].Genes) = N
             /\ k <= 0 => (gene' = gene /\ gen' = gen)]_vars

\* Mutate(2) has mutated the same gene of a three-gene genome twice
C12_Witness ==
    /\ last.op = "Mutate"
    /\ last.arg = 2
    /\ Len(last.calls) = 2
    /\ last.calls[1] = last.calls[2]
    /\ Len(gen[last.ref].Genes) = 3

\* the renderings of the first n genes of g, each after the first preceded by
\* one separator
RECURSIVE Rendered(_, _, _)
Rendered(g, heap, n) ==
    IF n = 1 THEN GeneString(heap[g.Genes[1]])
    ELSE Rendered(g, heap, n - 1)
           \o ("|" \o g.LinkFunc \o "|") \o GeneString(heap[g.Genes[n]])

RECURSIVE SumLen(_, _, _)
SumLen(g, heap, n) ==
    IF n = 0 THEN 0
    ELSE SumLen(g, heap, n - 1) + Len(GeneString(heap[g.Genes[n]]))

\* C13: String() returns the genes' renderings in gene order joined by
\* "|" + LinkFunc + "|": N genes give N-1 separators, one gene gives its own
\* rendering alone; the call changes nothing of the genome or its genes, and
\* a second call right after the first returns the same text.
C13_StringJoinsRenderings ==
    [][last'.op = "String"
       => LET g == gen[last'.ref]
              N == Len(g.Genes)
          IN /\ last'.ret = Rendered(g, gene, N)
             /\ Len(last'.ret) = SumLen(g, gene, N)
                                   + (N - 1) * Len("|" \o g.LinkFunc \o "|")
             /\ N = 1 => last'.ret = GeneString(gene[g.Genes[1]])
             /\ gen' = gen
             /\ gene' = gene
             /\ (last'.again /\ last.op = "String") => last'.ret = last.ret]_vars

\* String() called twice in a row on a three-gene genome linked by IMP whose
\* genes differ
C13_Witness ==
    /\ last.op = "String"
    /\ last.again
    /\ Len(gen[last.ref].Genes) = 3
    /\ gen[last.ref].LinkFunc = "IMP"
    /\ gene[gen[last.ref].Genes[1]] # gene[gen[last.ref].Genes[2]]
    /\ last.ret = GeneString(gene[gen[last.ref].Genes[1]]) \o "|IMP|"
                    \o GeneString(gene[gen[last.ref].Genes[2]]) \o "|IMP|"
                    \o GeneString(gene[gen[last.ref].Genes[3]])

\* C14: Dup() on a nil genome logs a diagnostic and returns nil: no Genome and
\* no Gene object is made or changed and the process goes on; a Dup() on a
\* genome that is not nil logs nothing.
C14_DupOfNil ==
    [][last'.op = "Dup"
       => /\ last'.log <=> last'.ref = NilRef
          /\ last'.ref = NilRef
             => /\ last'.ret = NilRef
                /\ last'.calls = << >>
                /\ gen' = gen
                /\ gene' = gene
                /\ ~fatal'
                /\ evalVars' = evalVars]_vars

\* Dup() on nil has returned nil while no duplicate exists
C14_Witness ==
    /\ last.op = "Dup"
    /\ last.ref = NilRef
    /\ last.ret = NilRef
    /\ last.log
    /\ gen[DstRef] = Unalloc
    /\ ~fatal

\* C15: a Mutate call leaves the genome's Genes slice as it was (the same
\* Gene objects at the same indexes), and its LinkFunc, Score and SymbolMap;
\* no Gene object is made or dropped, and only the genes it called
\* gene.Mutate on may have other content than before.
C15_MutateKeepsStructure ==
    [][last'.op = "Mutate"
       => LET r == last'.ref
          IN /\ gen'[r].Genes = gen[r].Genes
             /\ gen'[r].LinkFunc = gen[r].LinkFunc
             /\ gen'[r].Score = gen[r].Score
             /\ gen'[r].SymbolMap = gen[r].SymbolMap
             /\ gen' = gen
             /\ \A a \in Addrs :
                  /\ (gene'[a] = Free) <=> (gene[a] = Free)
                  /\ a \notin SeqRange(last'.calls) => gene'[a] = gene[a]
             /\ SeqRange(last'.calls) \subseteq SeqRange(gen[r].Genes)]_vars

\* Mutate(2) has changed a gene of a genome whose SymbolMap was filled before:
\* the Genes slice is whole and the SymbolMap still holds the old count
C15_Witness ==
    /\ last.op = "Mutate"
    /\ last.arg = 2
    /\ Len(gen[last.ref].Genes) = 3
    /\ gen[last.ref].SymbolMap # NilMap
    /\ \E s \in Symbols :
         MapGet(gen[last.ref].SymbolMap, s) # ExpectedCount(gen[last.ref], s)

\* C16: a Genome from New or from Dup has a nil SymbolMap, whatever the
\* source's SymbolMap holds, and Dup leaves the source's SymbolMap alone; the
\* first SymbolCount on a genome asks that genome's own genes and counts its
\* own LinkFunc as they are at that call; and a SymbolCount on one genome
\* leaves every other genome, its SymbolMap included, as it was.
C16_CacheNotCarriedOver ==
    /\ [](last.op = "New" => gen[last.ret].SymbolMap = NilMap)
    /\ [][/\ (last'.op = "Dup" /\ last'.ref # NilRef)
             => /\ gen'[last'.ret].SymbolMap = NilMap
                /\ gen'[last'.ref].SymbolMap = gen[last'.ref].SymbolMap
          /\ last'.op = "SymbolCount"
             => LET r == last'.ref
                IN /\ gen[r].SymbolMap = NilMap
                      => /\ last'.calls = gen[r].Genes
                         /\ last'.ret = ExpectedCount(gen[r], last'.arg)
                         /\ \A s \in Symbols :
                              MapGet(gen'[r].SymbolMap, s) = ExpectedCount(gen[r], s)
                   /\ \A o \in Refs \ {r} : gen'[o] = gen[o]]_vars

\* the first SymbolCount on a duplicate whose source had its SymbolMap filled
\* before Dup: the duplicate was changed since, and its count differs from
\* the one the source has cached
C16_Witness ==
    /\ last.op = "SymbolCount"
    /\ last.ref = DstRef
    /\ last.calls = gen[DstRef].Genes
    /\ gen[SrcRef].SymbolMap # NilMap
    /\ gen[DstRef].LinkFunc # gen[SrcRef].LinkFunc
    /\ last.ret # MapGet(gen[SrcRef].SymbolMap, last.arg)
    /\ last.ret = ExpectedCount(gen[DstRef], last.arg)
====
